---- MODULE Spec2Model ----
(***************************************************************************)
(* Reconciliation engine of unboundCLI: the sync functions that diff a     *)
(* source hostname mapping against the host overrides of the Unbound       *)
(* resolver or the rewrites of AdguardHome and apply the changes.          *)
(*                                                                         *)
(* A hostname is a sequence of labels: the string "a.x" is <<"a","x">>.    *)
(* fmt.Sprintf("%s.%s", host, domain) is the concatenation of the two      *)
(* label sequences, strings.Contains(h, ".") is Len(h) > 1 and             *)
(* strings.SplitN(h, ".", 2) is <<Head(h)>> and Tail(h).                   *)
(***************************************************************************)
EXTENDS Integers, Sequences, FiniteSets, TLC

VARIABLES
    path,        \* the command this behaviour invokes
    hostnameMap, \* the source: hostname -> target address
    overrides,   \* host overrides held by Unbound, in listing order
    rewrites,    \* rewrites held by AdguardHome
    options,     \* the flags of caddy-sync-cloudflare
    runs,        \* the results of the invocations made so far
    caddySource  \* the Caddy configuration and what was extracted from it

vars == <<path, hostnameMap, overrides, rewrites, options, runs, caddySource>>

\* ---------------------------------------------------------------- bounds
MaxExisting == 2
MaxRuns == 2
MaxBothHosts == 1
MaxRoutes == 2
MaxHosts == 2
MaxDepth == 1

\* ------------------------------------------------------------ universe
EntryDescription == "cur"
LegacyDescriptions == <<"legacy">>
Descriptions == {"cur", "legacy", "manual"}
CaddyServerIP == "ip1"
TargetAddress == CaddyServerIP
Addresses == {"ip1", "ip2"}
FqdnHostnames == {<<"a", "x">>, <<"b", "x">>}
BareHostnames == {<<"c">>}
HostDomainPairs == {<<(<<"a">>), (<<"x">>)>>, <<(<<"b">>), (<<"x">>)>>}
\* caddy-sync-cloudflare: two Caddy hostnames share the service name "a"
ServiceHostnames == {<<"a", "x">>, <<"a", "y">>, <<"c">>}
SynthesizedPairs ==
    {<<(<<"a">>), (<<"dev", "vookie", "net">>)>>,
     <<(<<"a">>), (<<"caddy", "vookie", "net">>)>>}
CloudflareServerDescriptions ==
    {<<"ip1", "cur">>, <<"ip2", "cur">>, <<"ip2", "manual">>}

\* the host patterns of Caddy routes: plain, with a port, bare, wildcard
HostPatterns ==
    {[labels |-> l, port |-> p] :
        l \in {<<"a", "x">>, <<"*", "x">>}, p \in BOOLEAN}
    \cup {[labels |-> <<"c">>, port |-> FALSE]}
HandlerKinds == {"subroute", "reverse_proxy"}

\* no configuration was read: the mapping is given
NoCaddy ==
    [config |-> [sections |-> {}, servers |-> <<>>],
     fetched |-> [err |-> "none", isNil |-> TRUE, result |-> <<>>]]

\* ------------------------------------------------------------- helpers
Range(s) == {s[i] : i \in DOMAIN s}

Max(S) == CHOOSE m \in S : \A n \in S : n <= m

RECURSIVE SetToSeq(_)
SetToSeq(S) ==
    IF S = {} THEN <<>>
    ELSE LET e == CHOOSE x \in S : TRUE IN <<e>> \o SetToSeq(S \ {e})

Key(o) == o.host \o o.domain

containsDot(hostname) == Len(hostname) > 1

isLegacyDescription(desc, legacy) == \E i \in DOMAIN legacy : legacy[i] = desc

\* ------------------------------------------------ ownership classifier
IsSyncCreatedAlways(o) == TRUE

IsSyncCreated(o) ==
    \/ o.description = EntryDescription
    \/ isLegacyDescription(o.description, LegacyDescriptions)

\* a Go map filled in listing order: a later entry replaces an earlier one
\* that has the same key
LastByKey(existing, idxs) ==
    [k \in {Key(existing[i]) : i \in idxs} |->
        existing[Max({i \in idxs : Key(existing[i]) = k})]]

SyncCreatedOverrides(existing) ==
    LastByKey(existing, {i \in DOMAIN existing : IsSyncCreated(existing[i])})

OtherOverrides(existing) ==
    LastByKey(existing, {i \in DOMAIN existing : ~IsSyncCreated(existing[i])})

\* --------------------------------------------------------- diff engine
DiffToAddIgnoringOther(hm, sync, other) ==
    {h \in DOMAIN hm : containsDot(h) /\ h \notin DOMAIN sync}

DiffToAdd(hm, sync, other) ==
    {h \in DOMAIN hm :
        containsDot(h) /\ h \notin DOMAIN sync /\ h \notin DOMAIN other}

DiffToUpdate(hm, sync) ==
    {h \in DOMAIN hm :
        containsDot(h) /\ h \in DOMAIN sync /\ sync[h].server # hm[h]}

DiffToUpdateDescNoElse(hm, sync) ==
    {h \in DOMAIN hm :
        /\ containsDot(h) /\ h \in DOMAIN sync
        /\ sync[h].description # EntryDescription}

DiffToUpdateDesc(hm, sync) ==
    {h \in DOMAIN hm :
        /\ containsDot(h) /\ h \in DOMAIN sync
        /\ ~(sync[h].server # hm[h])
        /\ sync[h].description # EntryDescription}

DiffToRemoveAll(hm, sync) == DOMAIN sync

DiffToRemove(hm, sync) == {k \in DOMAIN sync : k \notin DOMAIN hm}

\* ------------------------------------------------- Unbound API client
IsOverrideExists(ovs, host, domain) ==
    \E i \in DOMAIN ovs : ovs[i].host = host /\ ovs[i].domain = domain

NewUUID(ovs) == Max({0} \cup {ovs[i].uuid : i \in DOMAIN ovs}) + 1

\* the outcome of one client call: the resolver's overrides after it
\* and whether it returned without error
AddOverride(ovs, o, apiOk) ==
    IF IsOverrideExists(ovs, o.host, o.domain) \/ ~apiOk
    THEN [ovs |-> ovs, ok |-> FALSE]
    ELSE [ovs |-> Append(ovs, [o EXCEPT !.uuid = NewUUID(ovs)]), ok |-> TRUE]

UpdateOverride(ovs, o, apiOk) ==
    IF o.uuid = 0 \/ ~apiOk
    THEN [ovs |-> ovs, ok |-> FALSE]
    ELSE [ovs |-> [i \in DOMAIN ovs |->
                     IF ovs[i].uuid = o.uuid THEN o ELSE ovs[i]],
          ok |-> TRUE]

DeleteOverride(ovs, uuid, apiOk) ==
    IF ~apiOk
    THEN [ovs |-> ovs, ok |-> FALSE]
    ELSE [ovs |-> SelectSeq(ovs, LAMBDA e : e.uuid # uuid), ok |-> TRUE]

ApplyChanges(apiOk) == apiOk

\* one client call of an applier, with its outcome
ClientCall(ovs, c, apiOk) ==
    CASE c.op = "add" -> AddOverride(ovs, c.override, apiOk)
      [] c.op = "update" -> UpdateOverride(ovs, c.override, apiOk)
      [] c.op = "delete" -> DeleteOverride(ovs, c.override.uuid, apiOk)

\* the loops of an applier: every planned call is made in turn, an error is
\* logged and the loop continues
RECURSIVE RunCalls(_, _, _)
RunCalls(st, plan, failing) ==
    IF plan = <<>> THEN st
    ELSE LET c == Head(plan)
             r == ClientCall(st.ovs, c, c.key \notin failing)
         IN RunCalls([ovs |-> r.ovs,
                      calls |-> Append(st.calls,
                                  [op |-> c.op, set |-> c.set, key |-> c.key,
                                   target |-> c.override.uuid,
                                   payload |-> c.override, ok |-> r.ok])],
                     Tail(plan), failing)

AnySucceeded(calls) == \E i \in DOMAIN calls : calls[i].ok

\* ------------------------------------------------------ change applier
NewOverride(hostname, server) ==
    [uuid |-> 0, host |-> <<Head(hostname)>>, domain |-> Tail(hostname),
     server |-> server, description |-> EntryDescription]

PlanOf(set, op, keys, payload) ==
    LET s == SetToSeq(keys)
    IN [i \in DOMAIN s |->
          [op |-> op, set |-> set, key |-> s[i], override |-> payload[s[i]]]]

\* internal/exec/sync/cloudflare.go
SyncPlan(hm, sync, d) ==
    PlanOf("ToAdd", "add", d.ToAdd,
           [h \in d.ToAdd |-> NewOverride(h, hm[h])])
    \o PlanOf("ToUpdate", "update", d.ToUpdate,
              [h \in d.ToUpdate |->
                  [sync[h] EXCEPT !.server = hm[h],
                                  !.description = EntryDescription]])
    \o PlanOf("ToUpdateDesc", "update", d.ToUpdateDesc,
              [h \in d.ToUpdateDesc |->
                  [sync[h] EXCEPT !.description = EntryDescription]])
    \o PlanOf("ToRemove", "delete", d.ToRemove,
              [h \in d.ToRemove |-> sync[h]])

\* cmd/cloudflare-sync.go: an address update leaves the description alone
CmdPlan(hm, sync, d) ==
    PlanOf("ToAdd", "add", d.ToAdd,
           [h \in d.ToAdd |-> NewOverride(h, hm[h])])
    \o PlanOf("ToUpdate", "update", d.ToUpdate,
              [h \in d.ToUpdate |-> [sync[h] EXCEPT !.server = hm[h]]])
    \o PlanOf("ToUpdateDesc", "update", d.ToUpdateDesc,
              [h \in d.ToUpdateDesc |->
                  [sync[h] EXCEPT !.description = EntryDescription]])
    \o PlanOf("ToRemove", "delete", d.ToRemove,
              [h \in d.ToRemove |-> sync[h]])

\* the tail of applyCloudflareChanges: reconfigure when something changed,
\* and return false when the reconfigure call fails
ReturnAfterReconfigure(changesApplied, reconfOk) ==
    IF changesApplied
    THEN (IF ~ApplyChanges(reconfOk) THEN FALSE ELSE changesApplied)
    ELSE changesApplied

applyCloudflareChanges(ovs, hm, sync, d, failing, reconfOk) ==
    LET st == RunCalls([ovs |-> ovs, calls |-> <<>>], SyncPlan(hm, sync, d),
                       failing)
        changesApplied == AnySucceeded(st.calls)
    IN [ovs |-> st.ovs, calls |-> st.calls,
        reconfigure |-> IF ~changesApplied THEN "none"
                        ELSE IF ApplyChanges(reconfOk) THEN "ok" ELSE "failed",
        changesApplied |-> ReturnAfterReconfigure(changesApplied, reconfOk)]

cmdApplyCloudflareChanges(ovs, hm, sync, d, failing) ==
    LET st == RunCalls([ovs |-> ovs, calls |-> <<>>], CmdPlan(hm, sync, d),
                       failing)
    IN [ovs |-> st.ovs, calls |-> st.calls, reconfigure |-> "none",
        changesApplied |-> AnySucceeded(st.calls)]

\* ------------------------------------------------ AdguardHome client
\* AdguardHome identifies a rewrite by its domain and answer
AddRewrite(rws, domain, answer, apiOk) ==
    IF ~apiOk THEN [rws |-> rws, ok |-> FALSE]
    ELSE [rws |-> rws \cup {[domain |-> domain, answer |-> answer]},
          ok |-> TRUE]

UpdateRewrite(rws, target, update, apiOk) ==
    IF ~apiOk THEN [rws |-> rws, ok |-> FALSE]
    ELSE [rws |-> (rws \ {target}) \cup {update}, ok |-> TRUE]

DeleteRewrite(rws, domain, answer, apiOk) ==
    IF ~apiOk THEN [rws |-> rws, ok |-> FALSE]
    ELSE [rws |-> rws \ {[domain |-> domain, answer |-> answer]},
          ok |-> TRUE]

RewriteCall(rws, c, apiOk) ==
    CASE c.op = "add" ->
            AddRewrite(rws, c.override.domain, c.override.answer, apiOk)
      [] c.op = "update" -> UpdateRewrite(rws, c.target, c.override, apiOk)
      [] c.op = "delete" ->
            DeleteRewrite(rws, c.override.domain, c.override.answer, apiOk)

RECURSIVE RunRewriteCalls(_, _, _)
RunRewriteCalls(st, plan, failing) ==
    IF plan = <<>> THEN st
    ELSE LET c == Head(plan)
             r == RewriteCall(st.rws, c, c.key \notin failing)
         IN RunRewriteCalls(
                [rws |-> r.rws,
                 calls |-> Append(st.calls,
                             [op |-> c.op, set |-> c.set, key |-> c.key,
                              target |-> c.target, payload |-> c.override,
                              ok |-> r.ok])],
                Tail(plan), failing)

\* the rewrite a key of a change set stands for; Go's zero value when the
\* key is not in the map
RewriteOf(syncRewriteMap, h) ==
    IF h \in DOMAIN syncRewriteMap THEN syncRewriteMap[h]
    ELSE [domain |-> <<>>, answer |-> ""]

\* target is the rewrite a call addresses, override the rewrite it sends
AdguardPlan(hm, syncRewriteMap, d) ==
    LET new(h) == [domain |-> h, answer |-> hm[h]]
        plan(set, op, keys, target(_), override(_)) ==
            LET s == SetToSeq(keys)
            IN [i \in DOMAIN s |->
                  [op |-> op, set |-> set, key |-> s[i],
                   target |-> target(s[i]), override |-> override(s[i])]]
    IN plan("ToAdd", "add", d.ToAdd, new, new)
       \o plan("ToUpdate", "update", d.ToUpdate,
               LAMBDA h : RewriteOf(syncRewriteMap, h), new)
       \o plan("ToRemove", "delete", d.ToRemove,
               LAMBDA h : RewriteOf(syncRewriteMap, h),
               LAMBDA h : [domain |-> h,
                           answer |-> RewriteOf(syncRewriteMap, h).answer])

\* an applier that reports a change as soon as it made a call
applyAdguardChangesTried(rws, hm, syncRewriteMap, d, failing) ==
    LET st == RunRewriteCalls([rws |-> rws, calls |-> <<>>],
                              AdguardPlan(hm, syncRewriteMap, d), failing)
    IN [rws |-> st.rws, calls |-> st.calls, reconfigure |-> "none",
        changesApplied |-> st.calls # <<>>]

applyAdguardChanges(rws, hm, syncRewriteMap, d, failing) ==
    LET st == RunRewriteCalls([rws |-> rws, calls |-> <<>>],
                              AdguardPlan(hm, syncRewriteMap, d), failing)
    IN [rws |-> st.rws, calls |-> st.calls, reconfigure |-> "none",
        changesApplied |-> AnySucceeded(st.calls)]

\* -------------------------------------------- rewrite classifier, diff
\* SyncCaddyWithAdguard: a rewrite is managed when it answers with the
\* Caddy address and its domain is a fully qualified Caddy hostname
IsSyncRewrite(r, hm) ==
    /\ r.answer = CaddyServerIP
    /\ r.domain \in {h \in DOMAIN hm : containsDot(h)}

\* syncCaddyWithAdguardInternal: the answer alone decides
IsSyncRewriteInternal(r, hm) == r.answer = CaddyServerIP

RewriteMap(syncCreatedRewrites) ==
    [dom \in {r.domain : r \in syncCreatedRewrites} |->
        CHOOSE r \in syncCreatedRewrites : r.domain = dom]

DiffRewrites(hm, syncCreatedRewrites, otherRewrites) ==
    LET syncRewriteMap == RewriteMap(syncCreatedRewrites)
        existsOther(h) == \E r \in otherRewrites : r.domain = h
    IN [SyncRewrites |-> syncCreatedRewrites, OtherRewrites |-> otherRewrites,
        SyncOverrides |-> <<>>, OtherOverrides |-> <<>>,
        syncRewriteMap |-> syncRewriteMap, HostnameMap |-> hm,
        ToAdd |-> {h \in DOMAIN hm :
                     /\ containsDot(h)
                     /\ h \notin DOMAIN syncRewriteMap
                     /\ ~existsOther(h)},
        ToUpdate |-> {h \in DOMAIN hm :
                        /\ containsDot(h)
                        /\ h \in DOMAIN syncRewriteMap
                        /\ syncRewriteMap[h].answer # hm[h]},
        ToUpdateDesc |-> {},
        ToRemove |-> {dom \in DOMAIN syncRewriteMap : dom \notin DOMAIN hm}]

\* ------------------------------------------------------- sync results
\* what one sync function returns for one target system. ran: the function
\* was called; err: "none" for a nil error, else the call that failed (the
\* result pointer is then nil); diffed: the change sets were computed.
NoTarget ==
    [ran |-> FALSE, err |-> "none", diffed |-> FALSE,
     ToAdd |-> {}, ToUpdate |-> {}, ToUpdateDesc |-> {}, ToRemove |-> {},
     SyncOverrides |-> <<>>, OtherOverrides |-> <<>>,
     SyncRewrites |-> {}, OtherRewrites |-> {},
     ChangesApplied |-> FALSE, calls |-> <<>>, reconfigure |-> "none",
     HostnameMap |-> <<>>, fetches |-> 0]

\* what one invocation of a command's sync function returns
NoRun(p, hm, ovs, rws, dryRun) ==
    [path |-> p, dryRun |-> dryRun, err |-> "none", HostnameMap |-> hm,
     beforeOverrides |-> ovs, beforeRewrites |-> rws,
     unbound |-> NoTarget, adguard |-> NoTarget,
     nilResult |-> FALSE, errorMsg |-> <<>>, fetches |-> 1]

\* the source fetch failed: the function returns nil and the error
FetchFailed(r0) == [r0 EXCEPT !.err = "fetch", !.nilResult = TRUE]

Targets == {"unbound", "adguard"}

Called == [NoTarget EXCEPT !.ran = TRUE]

ListFailed == [Called EXCEPT !.err = "list"]

WithDiff(r, d) ==
    [r EXCEPT !.diffed = TRUE, !.HostnameMap = d.HostnameMap,
              !.ToAdd = d.ToAdd, !.ToUpdate = d.ToUpdate,
              !.ToUpdateDesc = d.ToUpdateDesc, !.ToRemove = d.ToRemove,
              !.SyncOverrides = d.SyncOverrides,
              !.OtherOverrides = d.OtherOverrides,
              !.SyncRewrites = d.SyncRewrites,
              !.OtherRewrites = d.OtherRewrites]

WithApplied(r, a) ==
    [r EXCEPT !.ChangesApplied = a.changesApplied, !.calls = a.calls,
              !.reconfigure = a.reconfigure]

DiffOverrides(hm, existing) ==
    LET sync == SyncCreatedOverrides(existing)
        other == OtherOverrides(existing)
    IN [SyncOverrides |-> sync, OtherOverrides |-> other,
        SyncRewrites |-> {}, OtherRewrites |-> {}, HostnameMap |-> hm,
        ToAdd |-> DiffToAdd(hm, sync, other),
        ToUpdate |-> DiffToUpdate(hm, sync),
        ToUpdateDesc |-> DiffToUpdateDesc(hm, sync),
        ToRemove |-> DiffToRemove(hm, sync)]

Queued(d) == d.ToAdd \cup d.ToUpdate \cup d.ToUpdateDesc \cup d.ToRemove

\* ------------------------------------------------------ sync functions
SyncCloudflareWithUnboundNoDryRun(hm, ovs, rws, in) ==
    LET r0 == NoRun("sync", hm, ovs, rws, in.dryRun)
        d == DiffOverrides(hm, ovs)
        a == applyCloudflareChanges(ovs, hm, d.SyncOverrides, d,
                                    in.unbound.failing, in.unbound.reconfOk)
    IN IF ~in.fetchOk THEN [run |-> FetchFailed(r0), ovs |-> ovs]
       ELSE IF DOMAIN hm = {} THEN [run |-> r0, ovs |-> ovs]
       ELSE IF ~in.unbound.listOk
       THEN [run |-> [r0 EXCEPT !.err = "list", !.unbound = ListFailed,
                            !.nilResult = TRUE],
             ovs |-> ovs]
       ELSE [run |-> [r0 EXCEPT
                        !.unbound = WithApplied(WithDiff(Called, d), a)],
             ovs |-> a.ovs]

\* internal/exec/sync/cloudflare.go
SyncCloudflareWithUnbound(hm, ovs, rws, in) ==
    LET r0 == NoRun("sync", hm, ovs, rws, in.dryRun)
        d == DiffOverrides(hm, ovs)
        a == applyCloudflareChanges(ovs, hm, d.SyncOverrides, d,
                                    in.unbound.failing, in.unbound.reconfOk)
    IN IF ~in.fetchOk THEN [run |-> FetchFailed(r0), ovs |-> ovs]
       ELSE IF DOMAIN hm = {} THEN [run |-> r0, ovs |-> ovs]
       ELSE IF ~in.unbound.listOk
       THEN [run |-> [r0 EXCEPT !.err = "list", !.unbound = ListFailed,
                            !.nilResult = TRUE],
             ovs |-> ovs]
       ELSE IF in.dryRun
       THEN [run |-> [r0 EXCEPT !.unbound = WithDiff(Called, d)], ovs |-> ovs]
       ELSE [run |-> [r0 EXCEPT
                        !.unbound = WithApplied(WithDiff(Called, d), a)],
             ovs |-> a.ovs]

\* cmd/cloudflare-sync.go
CmdSyncCloudflareWithUnbound(hm, ovs, rws, in) ==
    LET r0 == NoRun("cmd", hm, ovs, rws, in.dryRun)
        d == DiffOverrides(hm, ovs)
        a == cmdApplyCloudflareChanges(ovs, hm, d.SyncOverrides, d,
                                       in.unbound.failing)
    IN IF ~in.fetchOk THEN [run |-> FetchFailed(r0), ovs |-> ovs]
       ELSE IF DOMAIN hm = {} THEN [run |-> r0, ovs |-> ovs]
       ELSE IF ~in.unbound.listOk
       THEN [run |-> [r0 EXCEPT !.err = "list", !.unbound = ListFailed,
                            !.nilResult = TRUE],
             ovs |-> ovs]
       ELSE IF in.dryRun
       THEN [run |-> [r0 EXCEPT !.unbound = WithDiff(Called, d)], ovs |-> ovs]
       ELSE [run |-> [r0 EXCEPT
                        !.unbound = WithApplied(WithDiff(Called, d), a)],
             ovs |-> a.ovs]

ClassifyRewrites(hm, existingRewrites) ==
    LET sync == {r \in existingRewrites : IsSyncRewrite(r, hm)}
    IN DiffRewrites(hm, sync, existingRewrites \ sync)

ClassifyRewritesInternal(hm, existingRewrites) ==
    LET sync == {r \in existingRewrites : IsSyncRewriteInternal(r, hm)}
    IN DiffRewrites(hm, sync, existingRewrites \ sync)

\* SyncCaddyWithAdguard, the caddy-sync-adguard command
SyncCaddyWithAdguard(hm, ovs, rws, in) ==
    LET r0 == NoRun("adguard", hm, ovs, rws, in.dryRun)
        d == ClassifyRewrites(hm, rws)
        a == applyAdguardChanges(rws, hm, d.syncRewriteMap, d,
                                 in.adguard.failing)
    IN IF ~in.fetchOk THEN [run |-> FetchFailed(r0), rws |-> rws]
       ELSE IF DOMAIN hm = {} THEN [run |-> r0, rws |-> rws]
       ELSE IF ~in.adguard.listOk
       THEN [run |-> [r0 EXCEPT !.err = "list", !.adguard = ListFailed,
                            !.nilResult = TRUE],
             rws |-> rws]
       ELSE IF in.dryRun
       THEN [run |-> [r0 EXCEPT !.adguard = WithDiff(Called, d)], rws |-> rws]
       ELSE [run |-> [r0 EXCEPT
                        !.adguard = WithApplied(WithDiff(Called, d), a)],
             rws |-> a.rws]

\* a sync function that fetches the Caddy hostnames itself
syncCaddyWithAdguardFetching(hm, rws, dryRun, in) ==
    LET d == ClassifyRewritesInternal(hm, rws)
        a == applyAdguardChanges(rws, hm, d.syncRewriteMap, d, in.failing)
        fetched(r) == [r EXCEPT !.fetches = r.fetches + 1]
    IN IF ~in.listOk THEN [result |-> fetched(ListFailed), rws |-> rws]
       ELSE IF dryRun
       THEN [result |-> fetched(WithDiff(Called, d)), rws |-> rws]
       ELSE [result |-> fetched(WithApplied(WithDiff(Called, d), a)),
             rws |-> a.rws]

\* the Adguard half of caddy-sync-all
syncCaddyWithAdguardInternal(hm, rws, dryRun, in) ==
    LET d == ClassifyRewritesInternal(hm, rws)
        a == applyAdguardChanges(rws, hm, d.syncRewriteMap, d, in.failing)
    IN IF ~in.listOk THEN [result |-> ListFailed, rws |-> rws]
       ELSE IF dryRun THEN [result |-> WithDiff(Called, d), rws |-> rws]
       ELSE [result |-> WithApplied(WithDiff(Called, d), a), rws |-> a.rws]

\* --------------------------------------------- caddy-sync-cloudflare
parseHostnameToDNSEntry(hostname, ip, description, mode) ==
    [Hostname |-> <<Head(hostname)>>,
     Domain |-> IF Len(hostname) > 1 THEN Tail(hostname) ELSE <<"local">>,
     IP |-> ip, Description |-> description, Mode |-> mode]

EntryKey(entry) == entry.Hostname \o entry.Domain

\* fmt.Sprintf("%s.%s.vookie.net", serviceName, subdomain), serviceName
\* being the hostname up to its first dot
Synthesized(hostname, subdomain) ==
    <<Head(hostname), subdomain, "vookie", "net">>

\* hostnames with the same first label share one map key; the addresses
\* they carry are equal, every Caddy hostname having the Caddy address
DirectEntries(hm, opts) ==
    IF opts.SyncDirect
    THEN [k \in {Synthesized(h, opts.DirectSubdomain) : h \in DOMAIN hm} |->
            hm[CHOOSE h \in DOMAIN hm :
                   Synthesized(h, opts.DirectSubdomain) = k]]
    ELSE <<>>

CaddyEntries(hm, opts) ==
    IF opts.SyncCaddy
    THEN [k \in {Synthesized(h, opts.CaddySubdomain) : h \in DOMAIN hm} |->
            CaddyServerIP]
    ELSE <<>>

Without(sync, keys) == [k \in DOMAIN sync \ keys |-> sync[k]]

\* one of the two loops over synthesized entries: an owned override with
\* the key is updated when its address differs and is struck off the map of
\* owned overrides; any other key is added
CheckEntries(entries, mode, sync) ==
    LET e(h) == parseHostnameToDNSEntry(h, entries[h], EntryDescription, mode)
    IN [ToUpdate |-> {e(h) : h \in {x \in DOMAIN entries :
                          /\ EntryKey(e(x)) \in DOMAIN sync
                          /\ sync[EntryKey(e(x))].server # entries[x]}},
        ToAdd |-> {e(h) : h \in {x \in DOMAIN entries :
                          EntryKey(e(x)) \notin DOMAIN sync}},
        sync |-> Without(sync, {EntryKey(e(h)) : h \in DOMAIN entries})]

DiffCloudflare(hm, existing, opts) ==
    LET sync == SyncCreatedOverrides(existing)
        direct == CheckEntries(DirectEntries(hm, opts), "direct", sync)
        caddy == CheckEntries(CaddyEntries(hm, opts), "caddy", direct.sync)
    IN [SyncOverrides |-> <<>>, OtherOverrides |-> OtherOverrides(existing),
        SyncRewrites |-> {}, OtherRewrites |-> {}, HostnameMap |-> hm,
        remaining |-> caddy.sync,
        directAdd |-> direct.ToAdd, caddyAdd |-> caddy.ToAdd,
        ToAdd |-> direct.ToAdd \cup caddy.ToAdd,
        ToUpdate |-> direct.ToUpdate \cup caddy.ToUpdate,
        ToUpdateDesc |-> {},
        ToRemove |-> {caddy.sync[k] : k \in DOMAIN caddy.sync}]

EntryOverride(entry, uuid) ==
    [uuid |-> uuid, host |-> entry.Hostname, domain |-> entry.Domain,
     server |-> entry.IP, description |-> entry.Description]

\* the calls of the apply loops: the adds of the direct loop, those of the
\* Caddy loop, the updates whose key is still in the map of owned
\* overrides, the removals
CloudflarePlan(d) ==
    LET adds(S) == LET s == SetToSeq(S)
                   IN [i \in DOMAIN s |->
                         [op |-> "add", set |-> "ToAdd", key |-> EntryKey(s[i]),
                          override |-> EntryOverride(s[i], 0)]]
        upd == SetToSeq({e \in d.ToUpdate : EntryKey(e) \in DOMAIN d.remaining})
        rem == SetToSeq(d.ToRemove)
    IN adds(d.directAdd) \o adds(d.caddyAdd)
       \o [i \in DOMAIN upd |->
             [op |-> "update", set |-> "ToUpdate", key |-> EntryKey(upd[i]),
              override |-> EntryOverride(upd[i],
                              d.remaining[EntryKey(upd[i])].uuid)]]
       \o [i \in DOMAIN rem |->
             [op |-> "delete", set |-> "ToRemove", key |-> Key(rem[i]),
              override |-> rem[i]]]

\* changesApplied starts true and any failed call sets it to false
NoneFailed(calls) == \A i \in DOMAIN calls : calls[i].ok

SyncCaddyWithCloudflare(hm, ovs, rws, opts, in) ==
    LET r0 == NoRun("caddycf", hm, ovs, rws, in.dryRun)
        d == DiffCloudflare(hm, ovs, opts)
        st == RunCalls([ovs |-> ovs, calls |-> <<>>], CloudflarePlan(d),
                       in.unbound.failing)
        a == [changesApplied |-> NoneFailed(st.calls), calls |-> st.calls,
              reconfigure |-> "none"]
    IN IF ~in.fetchOk THEN [run |-> FetchFailed(r0), ovs |-> ovs]
       ELSE IF DOMAIN hm = {} THEN [run |-> r0, ovs |-> ovs]
       ELSE IF ~in.unbound.listOk
       THEN [run |-> [r0 EXCEPT !.err = "list", !.unbound = ListFailed,
                            !.nilResult = TRUE],
             ovs |-> ovs]
       ELSE IF in.dryRun
       THEN [run |-> [r0 EXCEPT !.unbound = WithDiff(Called, d)], ovs |-> ovs]
       ELSE [run |-> [r0 EXCEPT
                        !.unbound = WithApplied(WithDiff(Called, d), a)],
             ovs |-> st.ovs]

\* applyChanges of the sync package, the applier of the Caddy-to-Unbound
\* sync: every queued entry gets its call, the reload follows the mutations
\* and its failure leaves changesApplied as it was
applyChanges(ovs, hm, sync, d, failing, reconfOk) ==
    LET st == RunCalls([ovs |-> ovs, calls |-> <<>>], SyncPlan(hm, sync, d),
                       failing)
        changesApplied == AnySucceeded(st.calls)
    IN [ovs |-> st.ovs, calls |-> st.calls,
        reconfigure |-> IF ~changesApplied THEN "none"
                        ELSE IF ApplyChanges(reconfOk) THEN "ok" ELSE "failed",
        changesApplied |-> changesApplied]

\* a sync that takes a failed listing for an empty one and goes on
syncCaddyWithUnboundInternalListless(hm, ovs, dryRun, in) ==
    LET d == DiffOverrides(hm, IF in.listOk THEN ovs ELSE <<>>)
        a == applyChanges(ovs, hm, d.SyncOverrides, d, in.failing, in.reconfOk)
        called == IF in.listOk THEN Called ELSE ListFailed
    IN IF dryRun THEN [result |-> WithDiff(called, d), ovs |-> ovs]
       ELSE [result |-> WithApplied(WithDiff(called, d), a), ovs |-> a.ovs]

\* the Unbound half of caddy-sync-all
syncCaddyWithUnboundInternal(hm, ovs, dryRun, in) ==
    LET d == DiffOverrides(hm, ovs)
        a == applyChanges(ovs, hm, d.SyncOverrides, d, in.failing, in.reconfOk)
    IN IF ~in.listOk THEN [result |-> ListFailed, ovs |-> ovs]
       ELSE IF dryRun THEN [result |-> WithDiff(Called, d), ovs |-> ovs]
       ELSE [result |-> WithApplied(WithDiff(Called, d), a), ovs |-> a.ovs]

\* the error UnifiedCaddySync returns: nil, or a message that names the
\* targets that failed, each with its error
CombinedErrorFirstOnly(unboundError, adguardError) ==
    IF unboundError # "none" THEN <<<<"UnboundDNS", unboundError>>>>
    ELSE IF adguardError # "none" THEN <<<<"AdguardHome", adguardError>>>>
    ELSE <<>>

CombinedError(unboundError, adguardError) ==
    IF unboundError # "none" /\ adguardError # "none"
    THEN <<<<"UnboundDNS", unboundError>>, <<"AdguardHome", adguardError>>>>
    ELSE IF unboundError # "none" THEN <<<<"UnboundDNS", unboundError>>>>
    ELSE IF adguardError # "none" THEN <<<<"AdguardHome", adguardError>>>>
    ELSE <<>>

UnifiedCaddySyncFailFast(p, unboundClient, adguardClient, hm, ovs, rws, in) ==
    LET r0 == NoRun(p, hm, ovs, rws, in.dryRun)
        u == IF unboundClient
             THEN syncCaddyWithUnboundInternal(hm, ovs, in.dryRun, in.unbound)
             ELSE [result |-> NoTarget, ovs |-> ovs]
        g == IF adguardClient /\ u.result.err = "none"
             THEN syncCaddyWithAdguardInternal(hm, rws, in.dryRun, in.adguard)
             ELSE [result |-> NoTarget, rws |-> rws]
    IN IF ~in.fetchOk
       THEN [run |-> FetchFailed(r0), ovs |-> ovs, rws |-> rws]
       ELSE IF DOMAIN hm = {}
       THEN [run |-> r0, ovs |-> ovs, rws |-> rws]
       ELSE [run |-> [r0 EXCEPT
                        !.err = IF u.result.err # "none" THEN "unbound"
                                ELSE IF g.result.err # "none" THEN "adguard"
                                ELSE "none",
                        !.unbound = u.result, !.adguard = g.result,
                        !.errorMsg = CombinedError(u.result.err, g.result.err)],
             ovs |-> u.ovs, rws |-> g.rws]

\* UnifiedCaddySync, the caddy-sync-all command; a nil client is FALSE
UnifiedCaddySync(p, unboundClient, adguardClient, hm, ovs, rws, in) ==
    LET r0 == NoRun(p, hm, ovs, rws, in.dryRun)
        u == IF unboundClient
             THEN syncCaddyWithUnboundInternal(hm, ovs, in.dryRun, in.unbound)
             ELSE [result |-> NoTarget, ovs |-> ovs]
        g == IF adguardClient
             THEN syncCaddyWithAdguardInternal(hm, rws, in.dryRun, in.adguard)
             ELSE [result |-> NoTarget, rws |-> rws]
        err == IF u.result.err # "none" /\ g.result.err # "none" THEN "both"
               ELSE IF u.result.err # "none" THEN "unbound"
               ELSE IF g.result.err # "none" THEN "adguard"
               ELSE "none"
    IN IF ~in.fetchOk
       THEN [run |-> FetchFailed(r0), ovs |-> ovs, rws |-> rws]
       ELSE IF DOMAIN hm = {}
       THEN [run |-> r0, ovs |-> ovs, rws |-> rws]
       ELSE [run |-> [r0 EXCEPT
                        !.err = err, !.unbound = u.result,
                        !.adguard = g.result,
                        !.errorMsg = CombinedError(u.result.err, g.result.err),
                        !.fetches = r0.fetches + u.result.fetches
                                    + g.result.fetches],
             ovs |-> u.ovs, rws |-> g.rws]

\* the exit status of the caddy-sync-all command: os.Exit(1) when
\* UnifiedCaddySync returns an error
ExitStatus(r) == IF r.err # "none" THEN 1 ELSE 0

\* ------------------------------------------------------------ reports
\* what a renderer writes for a live run: a section for each change set it
\* lists, and its closing message
NonEmptySets(t, names) == {n \in names : t[n] # {}}

\* RenderChanges: the four sections, then the status by ChangesApplied
RenderChanges(t) ==
    [sections |-> NonEmptySets(t, {"ToAdd", "ToUpdate", "ToUpdateDesc",
                                   "ToRemove"}),
     message |-> IF t.ChangesApplied THEN "Changes applied successfully"
                 ELSE "No changes were needed"]

RenderAdguardChanges(t) ==
    [sections |-> NonEmptySets(t, {"ToAdd", "ToUpdate", "ToRemove"}),
     message |-> IF t.ChangesApplied THEN "Changes applied successfully"
                 ELSE "No changes were needed"]

\* RenderCloudflareChanges lists no entries
RenderCloudflareChanges(t) ==
    [sections |-> {},
     message |-> IF t.ToAdd \cup t.ToUpdate \cup t.ToRemove = {}
                 THEN "No changes needed"
                 ELSE IF t.ChangesApplied THEN "Changes applied successfully"
                 ELSE "No changes were needed"]

\* the parts of RenderUnifiedChanges for the two targets
RenderUnifiedUnbound(t) ==
    IF RenderChanges(t).sections # {} THEN RenderChanges(t)
    ELSE [sections |-> {}, message |-> "No changes needed"]

RenderUnifiedAdguard(t) ==
    IF RenderAdguardChanges(t).sections # {} THEN RenderAdguardChanges(t)
    ELSE [sections |-> {}, message |-> "No changes needed"]

\* the messages that say the target is already in sync
InSyncMessages == {"No changes needed", "No changes were needed"}

\* what the command of the path prints for the target after a live run
Report(r, t) ==
    CASE r.path = "caddycf" -> RenderCloudflareChanges(r[t])
      [] r.path = "adguard" -> RenderAdguardChanges(r[t])
      [] r.path = "sync" -> RenderChanges(r[t])
      [] r.path = "cmd" ->
            [sections |-> RenderChanges(r[t]).sections, message |-> "none"]
      [] OTHER ->
            IF t = "adguard" THEN RenderUnifiedAdguard(r[t])
            ELSE RenderUnifiedUnbound(r[t])

\* --------------------------------------------------- the Caddy source
\* A host pattern is its labels and whether a port follows them: the
\* string "*.x:443" is [labels |-> <<"*", "x">>, port |-> TRUE].
\* strings.HasPrefix(hostStr, "*.")
HasWildcardPrefix(hostStr) ==
    Len(hostStr.labels) > 1 /\ Head(hostStr.labels) = "*"

\* strings.Contains(hostStr, ":")
HasPort(hostStr) == hostStr.port

\* strings.Split(hostStr, ":")[0]
HostBase(hostStr) == [labels |-> hostStr.labels, port |-> FALSE]

containsString(slice, str) == \E i \in DOMAIN slice : slice[i] = str

AppendNew(hostnames, str) ==
    IF containsString(hostnames, str) THEN hostnames
    ELSE Append(hostnames, str)

\* the body of the loop over the hosts of a match condition, with the test
\* for a port made before the test for a wildcard
extractHostPortFirst(hostStr, hostnames) ==
    IF HasPort(hostStr) THEN AppendNew(hostnames, HostBase(hostStr))
    ELSE IF HasWildcardPrefix(hostStr) THEN hostnames
    ELSE AppendNew(hostnames, hostStr)

\* the body of the loop over the hosts of a match condition
extractHost(hostStr, hostnames) ==
    IF HasWildcardPrefix(hostStr) THEN hostnames
    ELSE IF HasPort(hostStr) THEN AppendNew(hostnames, HostBase(hostStr))
    ELSE AppendNew(hostnames, hostStr)

RECURSIVE extractHosts(_, _)
extractHosts(hosts, hostnames) ==
    IF hosts = <<>> THEN hostnames
    ELSE extractHosts(Tail(hosts), extractHost(Head(hosts), hostnames))

RECURSIVE extractHostsFromMatch(_, _)
extractHostsFromMatch(match, hostnames) ==
    IF match = <<>> THEN hostnames
    ELSE extractHostsFromMatch(Tail(match),
                               extractHosts(Head(match).host, hostnames))

RECURSIVE processRoutes(_, _)
RECURSIVE processHandlers(_, _)
processHandlers(handle, hostnames) ==
    IF handle = <<>> THEN hostnames
    ELSE processHandlers(Tail(handle),
             IF Head(handle).handler = "subroute"
             THEN processRoutes(Head(handle).routes, hostnames)
             ELSE hostnames)

processRoutes(routes, hostnames) ==
    IF routes = <<>> THEN hostnames
    ELSE processRoutes(Tail(routes),
             processHandlers(Head(routes).handle,
                 extractHostsFromMatch(Head(routes).match, hostnames)))

RECURSIVE processServers(_, _)
processServers(servers, hostnames) ==
    IF servers = <<>> THEN hostnames
    ELSE processServers(Tail(servers),
                        processRoutes(Head(servers).routes, hostnames))

\* the sections a configuration nests its servers in
Sections == <<"apps", "http", "servers">>

\* the first of the sections that the configuration lacks
MissingSection(config) ==
    IF \A i \in DOMAIN Sections : Sections[i] \in config.sections
    THEN "none"
    ELSE Sections[CHOOSE i \in DOMAIN Sections :
                      /\ Sections[i] \notin config.sections
                      /\ \A j \in DOMAIN Sections :
                            j < i => Sections[j] \in config.sections]

\* a configuration without a servers section has no hostnames and no error
ExtractHostnamesLenient(config) ==
    IF MissingSection(config) \in {"apps", "http"}
    THEN [err |-> MissingSection(config), hostnames |-> <<>>]
    ELSE [err |-> "none", hostnames |-> processServers(config.servers, <<>>)]

ExtractHostnames(config) ==
    IF MissingSection(config) # "none"
    THEN [err |-> MissingSection(config), hostnames |-> <<>>]
    ELSE [err |-> "none", hostnames |-> processServers(config.servers, <<>>)]

\* GetHostnameMap; a nil map is the empty map with isNil set
GetHostnameMap(config, connectOk) ==
    LET extracted == ExtractHostnames(config)
    IN IF ~connectOk
       THEN [err |-> "connect", isNil |-> TRUE, result |-> <<>>]
       ELSE IF extracted.err # "none"
       THEN [err |-> extracted.err, isNil |-> TRUE, result |-> <<>>]
       ELSE [err |-> "none", isNil |-> FALSE,
             result |-> [h \in {extracted.hostnames[i].labels :
                                   i \in DOMAIN extracted.hostnames} |->
                            CaddyServerIP]]

\* ------------------------------------------------------------- inputs
\* the outcomes of the calls made to one target: the list call fails, or
\* the mutation calls on the keys in failing return an error and the
\* reconfigure call succeeds or not
NoFailure == [listOk |-> TRUE, failing |-> {}, reconfOk |-> TRUE]

TargetInputs(keys, reconfOutcomes) ==
    {[NoFailure EXCEPT !.listOk = FALSE]}
    \cup {[listOk |-> TRUE, failing |-> f, reconfOk |-> rc] :
            f \in SUBSET keys, rc \in reconfOutcomes}

\* the outcomes of the calls one invocation makes: the source fetch fails,
\* or the run is a dry run, or it is a live run
Inputs(unboundInputs, adguardInputs) ==
    {[fetchOk |-> FALSE, dryRun |-> FALSE, unbound |-> NoFailure,
      adguard |-> NoFailure],
     [fetchOk |-> TRUE, dryRun |-> TRUE, unbound |-> NoFailure,
      adguard |-> NoFailure]}
    \cup {[fetchOk |-> TRUE, dryRun |-> FALSE, unbound |-> u, adguard |-> a] :
            u \in unboundInputs, a \in adguardInputs}

UnboundInputs(reconfOutcomes) ==
    TargetInputs(Queued(DiffOverrides(hostnameMap, overrides)), reconfOutcomes)

AdguardInputs ==
    TargetInputs(Queued(ClassifyRewritesInternal(hostnameMap, rewrites)),
                 {TRUE})

\* ------------------------------------------------------ initial states
\* an owned override holds the desired or a stale address under the current
\* or a legacy description; a manually created one holds its own address
ServerDescriptionPairs ==
    {sd \in Addresses \X Descriptions : sd[2] = "manual" => sd[1] # TargetAddress}

OverridesOf(pairs, serverDescriptions) ==
    {[uuid |-> 0, host |-> hd[1], domain |-> hd[2], server |-> sd[1],
      description |-> sd[2]] : hd \in pairs, sd \in serverDescriptions}

RewriteUniverse ==
    {[domain |-> h, answer |-> a] :
        h \in FqdnHostnames \cup BareHostnames, a \in Addresses}

RECURSIVE SeqsUpTo(_, _)
SeqsUpTo(S, n) ==
    IF n = 0 THEN {<<>>}
    ELSE LET shorter == SeqsUpTo(S, n - 1)
         IN shorter \cup {Append(q, e) : q \in shorter, e \in S}

\* the listing gives every override its own identifier
Numbered(q) == [i \in DOMAIN q |-> [q[i] EXCEPT !.uuid = i]]

Listings(universe, n) == {Numbered(q) : q \in SeqsUpTo(universe, n)}

RewriteSets(n) == {R \in SUBSET RewriteUniverse : Cardinality(R) <= n}

\* the source names any of the hostnames; every one of them is to resolve
\* to the target address
SourceMaps(hostnames) ==
    {[h \in H |-> TargetAddress] : H \in SUBSET hostnames}

DefaultOptions ==
    [SyncDirect |-> TRUE, SyncCaddy |-> TRUE, DirectSubdomain |-> "dev",
     CaddySubdomain |-> "caddy"]

\* cloudflare-sync in its two packages and caddy-sync-all --unbound-only
InitUnbound ==
    /\ path \in {"sync", "cmd", "all-unbound"}
    /\ hostnameMap \in SourceMaps(FqdnHostnames \cup BareHostnames)
    /\ overrides \in Listings(OverridesOf(HostDomainPairs,
                                          ServerDescriptionPairs), MaxExisting)
    /\ rewrites = {}
    /\ options = DefaultOptions
    /\ runs = <<>>
    /\ caddySource = NoCaddy

\* caddy-sync-adguard and caddy-sync-all --adguard-only
InitAdguard ==
    /\ path \in {"adguard", "all-adguard"}
    /\ hostnameMap \in SourceMaps(FqdnHostnames \cup BareHostnames)
    /\ overrides = <<>>
    /\ rewrites \in RewriteSets(MaxExisting)
    /\ options = DefaultOptions
    /\ runs = <<>>
    /\ caddySource = NoCaddy

\* caddy-sync-all with both targets
InitBoth ==
    /\ path = "all-both"
    /\ hostnameMap \in SourceMaps(FqdnHostnames \cup BareHostnames)
    /\ Cardinality(DOMAIN hostnameMap \cap FqdnHostnames) <= MaxBothHosts
    /\ overrides \in Listings(OverridesOf(HostDomainPairs,
                                          ServerDescriptionPairs), MaxExisting)
    /\ rewrites \in RewriteSets(MaxExisting)
    /\ Len(overrides) + Cardinality(rewrites) < MaxExisting
    /\ options = DefaultOptions
    /\ runs = <<>>
    /\ caddySource = NoCaddy

\* caddy-sync-cloudflare with --direct-only, with --caddy-only or with
\* neither (the command refuses both), the Caddy subdomain being the default
\* or the direct one
InitCloudflare ==
    /\ path = "caddycf"
    /\ hostnameMap \in SourceMaps(ServiceHostnames)
    /\ overrides \in Listings(OverridesOf(SynthesizedPairs,
                                          CloudflareServerDescriptions),
                              MaxExisting)
    /\ rewrites = {}
    /\ options \in [SyncDirect : BOOLEAN, SyncCaddy : BOOLEAN,
                    DirectSubdomain : {"dev"}, CaddySubdomain : {"caddy", "dev"}]
    /\ options.SyncDirect \/ options.SyncCaddy
    /\ runs = <<>>
    /\ caddySource = NoCaddy

Init == InitUnbound \/ InitAdguard \/ InitBoth \/ InitCloudflare

\* ------------------------------------------------------------ actions
RunSyncCloudflareWithUnbound ==
    /\ path = "sync"
    /\ Len(runs) < MaxRuns
    /\ \E in \in Inputs(UnboundInputs(BOOLEAN), {NoFailure}) :
          LET out == SyncCloudflareWithUnbound(hostnameMap, overrides,
                                               rewrites, in)
          IN /\ runs' = Append(runs, out.run)
             /\ overrides' = out.ovs
    /\ UNCHANGED <<path, hostnameMap, rewrites, options, caddySource>>

RunCmdSyncCloudflareWithUnbound ==
    /\ path = "cmd"
    /\ Len(runs) < MaxRuns
    /\ \E in \in Inputs(UnboundInputs({TRUE}), {NoFailure}) :
          LET out == CmdSyncCloudflareWithUnbound(hostnameMap, overrides,
                                                  rewrites, in)
          IN /\ runs' = Append(runs, out.run)
             /\ overrides' = out.ovs
    /\ UNCHANGED <<path, hostnameMap, rewrites, options, caddySource>>

RunSyncCaddyWithAdguard ==
    /\ path = "adguard"
    /\ Len(runs) < MaxRuns
    /\ \E in \in Inputs({NoFailure}, AdguardInputs) :
          LET out == SyncCaddyWithAdguard(hostnameMap, overrides, rewrites, in)
          IN /\ runs' = Append(runs, out.run)
             /\ rewrites' = out.rws
    /\ UNCHANGED <<path, hostnameMap, overrides, options, caddySource>>

RunSyncCaddyWithCloudflare ==
    /\ path = "caddycf"
    /\ Len(runs) < MaxRuns
    /\ \E in \in Inputs(
              TargetInputs({Key(o) : o \in DiffCloudflare(hostnameMap,
                                overrides, options).ToRemove}
                           \cup {EntryKey(e) : e \in DiffCloudflare(hostnameMap,
                                overrides, options).ToAdd}, {TRUE}),
              {NoFailure}) :
          LET out == SyncCaddyWithCloudflare(hostnameMap, overrides, rewrites,
                                             options, in)
          IN /\ runs' = Append(runs, out.run)
             /\ overrides' = out.ovs
    /\ UNCHANGED <<path, hostnameMap, rewrites, options, caddySource>>

RunUnifiedCaddySync ==
    /\ path \in {"all-unbound", "all-adguard", "all-both"}
    /\ Len(runs) < MaxRuns
    /\ LET unboundClient == path # "all-adguard"
           adguardClient == path # "all-unbound"
       IN \E in \in Inputs(IF unboundClient THEN UnboundInputs(BOOLEAN)
                                            ELSE {NoFailure},
                           IF adguardClient THEN AdguardInputs
                                            ELSE {NoFailure}) :
             LET out == UnifiedCaddySync(path, unboundClient, adguardClient,
                                         hostnameMap, overrides, rewrites, in)
             IN /\ runs' = Append(runs, out.run)
                /\ overrides' = out.ovs
                /\ rewrites' = out.rws
    /\ UNCHANGED <<path, hostnameMap, options, caddySource>>

Next ==
    \/ RunSyncCloudflareWithUnbound
    \/ RunCmdSyncCloudflareWithUnbound
    \/ RunSyncCaddyWithAdguard
    \/ RunSyncCaddyWithCloudflare
    \/ RunUnifiedCaddySync

Spec == Init /\ [][Next]_vars

\* --------------------------------- caddy-sync-all reading Caddy's config
\* a route that matches the hosts and hands them to a proxy
LeafRoute(hosts) ==
    [match |-> <<[host |-> hosts]>>,
     handle |-> <<[handler |-> "reverse_proxy", routes |-> <<>>]>>]

\* a route without a match whose handler of the kind holds the route
Wrap(route, kind) ==
    [match |-> <<>>, handle |-> <<[handler |-> kind, routes |-> <<route>>]>>]

RECURSIVE RoutesOfDepth(_)
RoutesOfDepth(n) ==
    IF n = 0
    THEN {LeafRoute(hosts) :
            hosts \in SeqsUpTo(HostPatterns, MaxHosts) \ {<<>>}}
    ELSE LET inner == RoutesOfDepth(n - 1)
         IN inner \cup {Wrap(r, k) : r \in inner, k \in HandlerKinds}

\* the sections nest: http lies in apps and servers in http
SectionChains == {{Sections[j] : j \in 1..n} : n \in 0..Len(Sections)}

\* one server; a configuration without a servers section has no server
Configs ==
    {[sections |-> Range(Sections), servers |-> <<[routes |-> routes]>>] :
        routes \in SeqsUpTo(RoutesOfDepth(MaxDepth), MaxRoutes)}
    \cup {[sections |-> S, servers |-> <<>>] :
            S \in SectionChains \ {Range(Sections)}}

InitExtract ==
    /\ path = "all-both"
    /\ hostnameMap = <<>>
    /\ overrides = <<>>
    /\ rewrites = {}
    /\ options = DefaultOptions
    /\ runs = <<>>
    /\ caddySource \in [config : Configs, fetched : {NoCaddy.fetched}]

\* the caddy-sync-all command: UnifiedCaddySync fetches the mapping from
\* Caddy and syncs both targets with it
RunCaddySyncAll ==
    /\ caddySource.config \in Configs
    /\ Len(runs) < MaxRuns - 1
    /\ \E connectOk \in BOOLEAN :
          LET got == GetHostnameMap(caddySource.config, connectOk)
              hm == got.result
          IN \E in \in Inputs(
                     TargetInputs(Queued(DiffOverrides(hm, overrides)),
                                  BOOLEAN),
                     TargetInputs(Queued(ClassifyRewritesInternal(hm,
                                                                  rewrites)),
                                  {TRUE})) :
                /\ in.fetchOk = (got.err = "none")
                /\ LET out == UnifiedCaddySync(path, TRUE, TRUE, hm,
                                               overrides, rewrites, in)
                   IN /\ runs' = Append(runs, out.run)
                      /\ overrides' = out.ovs
                      /\ rewrites' = out.rws
                      /\ hostnameMap' = hm
                      /\ caddySource' = [caddySource EXCEPT !.fetched = got]
    /\ UNCHANGED <<path, options>>

NextExtract == RunCaddySyncAll

SpecExtract == InitExtract /\ [][NextExtract]_vars

\* ------------------------------------------------------ the add command
\* the outcomes of the client calls of one add: all succeed, or the
\* listing of the command's own check fails, or the calls of AddOverride
\* fail, or ApplyChanges fails
AddInputs ==
    {[checkOk |-> c, addOk |-> a, applyOk |-> p] :
        c \in BOOLEAN, a \in BOOLEAN, p \in BOOLEAN}
    \ {in \in [checkOk : BOOLEAN, addOk : BOOLEAN, applyOk : BOOLEAN] :
         Cardinality({f \in {"checkOk", "addOk", "applyOk"} : ~in[f]}) > 1}

\* the Run function of addCmd with its flags: what it reports and the
\* overrides of the resolver after it
AddCmd(ovs, override, forceAdd, in) ==
    LET r0 == [path |-> "add", forceAdd |-> forceAdd, override |-> override,
               beforeOverrides |-> ovs, in |-> in, exit |-> 0,
               duplicateWarning |-> FALSE, forceHint |-> FALSE,
               added |-> FALSE, applied |-> FALSE]
        exists == IsOverrideExists(ovs, override.host, override.domain)
        added == AddOverride(ovs, override, in.addOk)
    IN IF ~forceAdd /\ ~in.checkOk
       THEN [run |-> [r0 EXCEPT !.exit = 1], ovs |-> ovs]
       ELSE IF ~forceAdd /\ exists
       THEN [run |-> [r0 EXCEPT !.duplicateWarning = TRUE], ovs |-> ovs]
       ELSE IF ~added.ok /\ in.addOk
       THEN [run |-> [r0 EXCEPT !.forceHint = TRUE], ovs |-> added.ovs]
       ELSE IF ~added.ok
       THEN [run |-> [r0 EXCEPT !.exit = 1], ovs |-> added.ovs]
       ELSE IF ~ApplyChanges(in.applyOk)
       THEN [run |-> [r0 EXCEPT !.added = TRUE, !.exit = 1],
             ovs |-> added.ovs]
       ELSE [run |-> [r0 EXCEPT !.added = TRUE, !.applied = TRUE],
             ovs |-> added.ovs]

\* the overrides the flags --host, --domain, --server and --description
\* of the command can name
AddFlags ==
    {[uuid |-> 0, host |-> hd[1], domain |-> hd[2], server |-> a,
      description |-> "manual"] : hd \in HostDomainPairs, a \in Addresses}

InitAdd ==
    /\ path = "add"
    /\ hostnameMap = <<>>
    /\ overrides \in Listings(OverridesOf(HostDomainPairs,
                                          ServerDescriptionPairs), MaxExisting)
    /\ rewrites = {}
    /\ options = DefaultOptions
    /\ runs = <<>>
    /\ caddySource = NoCaddy

RunAddCmd ==
    /\ path = "add"
    /\ Len(runs) < MaxRuns
    /\ \E override \in AddFlags, forceAdd \in BOOLEAN, in \in AddInputs :
          LET out == AddCmd(overrides, override, forceAdd, in)
          IN /\ runs' = Append(runs, out.run)
             /\ overrides' = out.ovs
    /\ UNCHANGED <<path, hostnameMap, rewrites, options, caddySource>>

NextAdd == RunAddCmd

SpecAdd == InitAdd /\ [][NextAdd]_vars

\* ============================================================ properties
\* the run whose results are the latest
Last == runs[Len(runs)]

\* the marker of an override is the current or a legacy description
MarkerMatches(o) == o.description \in {"cur", "legacy"}

\* the commands whose diff is the marker-based diff of host overrides
UnboundPaths == {"sync", "cmd", "all-unbound", "all-both"}

\* the paths whose applier is applyCloudflareChanges of either package or
\* applyAdguardChanges
ApplierPaths == {"sync", "cmd", "adguard", "all-adguard"}

ChangeSets(t) == t.ToAdd \cup t.ToUpdate \cup t.ToUpdateDesc \cup t.ToRemove

\* C1: the diff of host overrides never places an override whose
\* description is neither the current nor a legacy marker into a change
\* set: its key is not added, and every key queued for update, description
\* update or removal stands for another, owned override, also when the
\* foreign override's key is a hostname of the source mapping.
C1_OwnershipPreservation ==
    (runs # <<>> /\ Last.path \in UnboundPaths /\ Last.unbound.diffed) =>
        \A j \in DOMAIN Last.beforeOverrides :
            LET o == Last.beforeOverrides[j]
                t == Last.unbound
            IN ~MarkerMatches(o) =>
                  /\ Key(o) \notin t.ToAdd
                  /\ \A k \in t.ToUpdate \cup t.ToUpdateDesc \cup t.ToRemove :
                        /\ k \in DOMAIN t.SyncOverrides
                        /\ t.SyncOverrides[k].uuid # o.uuid

\* a foreign override collides with a source hostname while an owned
\* override of the same key is queued for update
C1_Witness ==
    /\ runs # <<>> /\ Last.path \in UnboundPaths /\ Last.unbound.diffed
    /\ \E j \in DOMAIN Last.beforeOverrides :
          /\ ~MarkerMatches(Last.beforeOverrides[j])
          /\ Key(Last.beforeOverrides[j]) \in DOMAIN Last.HostnameMap
          /\ Key(Last.beforeOverrides[j]) \in Last.unbound.ToUpdate

\* C2: in a live run of a sync path (the resolver sync of either package,
\* the rewrite sync standalone or unified, caddy-sync-cloudflare) every
\* update and delete call addresses an entry that the run classified as
\* owned, and every entry that is foreign is on the target after the run
\* exactly as before it.
C2_ForeignNeverMutated ==
    (runs # <<>> /\ Last.path \in ApplierPaths \cup {"caddycf"}) =>
        /\ \A i \in DOMAIN Last.unbound.calls :
              LET c == Last.unbound.calls[i]
              IN c.op \in {"update", "delete"} =>
                    \E j \in DOMAIN Last.beforeOverrides :
                        /\ Last.beforeOverrides[j].uuid = c.target
                        /\ MarkerMatches(Last.beforeOverrides[j])
        /\ \A j \in DOMAIN Last.beforeOverrides :
              ~MarkerMatches(Last.beforeOverrides[j]) =>
                  \E k \in DOMAIN overrides :
                      overrides[k] = Last.beforeOverrides[j]
        /\ \A i \in DOMAIN Last.adguard.calls :
              LET c == Last.adguard.calls[i]
              IN c.op \in {"update", "delete"} =>
                    c.target \in Last.beforeRewrites \cap Last.adguard.SyncRewrites
        /\ \A w \in Last.beforeRewrites :
              w \notin Last.adguard.SyncRewrites => w \in rewrites

\* a live run updated or deleted an owned override while a foreign
\* override held a hostname of the source
C2_Witness ==
    /\ runs # <<>> /\ Last.path \in ApplierPaths \cup {"caddycf"}
    /\ \E i \in DOMAIN Last.unbound.calls :
          Last.unbound.calls[i].op \in {"update", "delete"}
          /\ Last.unbound.calls[i].ok
    /\ \E j \in DOMAIN Last.beforeOverrides :
          /\ ~MarkerMatches(Last.beforeOverrides[j])
          /\ Key(Last.beforeOverrides[j]) \in DOMAIN Last.HostnameMap

\* every mutation call of the run returned without error, and so did the
\* reconfigure call when one was made
AllCallsSucceeded(r) ==
    \A t \in Targets :
        /\ \A i \in DOMAIN r[t].calls : r[t].calls[i].ok
        /\ r[t].reconfigure # "failed"

\* C3: a reconciliation run twice in a row against the same source, the
\* first run live and with every call succeeding, leaves the second run
\* with empty to-add, to-update and to-remove sets.
C3_Idempotence ==
    Len(runs) >= 2 =>
        LET first == runs[Len(runs) - 1]
        IN (/\ first.path \in {"sync", "cmd", "adguard", "all-adguard"}
            /\ ~first.dryRun /\ first.err = "none"
            /\ AllCallsSucceeded(first)) =>
               \A t \in Targets :
                   /\ Last[t].ToAdd = {}
                   /\ Last[t].ToUpdate = {}
                   /\ Last[t].ToRemove = {}

\* C4: the classifier partitions the existing entries: owned and foreign
\* together are the existing entries, and no entry is in both, also when
\* two existing entries share a host.domain key.
C4_PartitionComplete ==
    (runs # <<>> /\ Last.path # "caddycf") =>
        /\ Last.unbound.diffed =>
              /\ Range(Last.unbound.SyncOverrides)
                     \cup Range(Last.unbound.OtherOverrides)
                 = Range(Last.beforeOverrides)
              /\ Range(Last.unbound.SyncOverrides)
                     \cap Range(Last.unbound.OtherOverrides) = {}
        /\ Last.adguard.diffed =>
              /\ Last.adguard.SyncRewrites \cup Last.adguard.OtherRewrites
                 = Last.beforeRewrites
              /\ Last.adguard.SyncRewrites \cap Last.adguard.OtherRewrites = {}

\* C5: no key is in both ToUpdate and ToUpdateDesc, and the key of an owned
\* override whose address and description both differ from the desired
\* ones is in ToUpdate and not in ToUpdateDesc.
C5_ValueOverMarker ==
    (runs # <<>> /\ Last.path \in UnboundPaths /\ Last.unbound.diffed) =>
        LET t == Last.unbound
        IN /\ t.ToUpdate \cap t.ToUpdateDesc = {}
           /\ \A k \in DOMAIN t.SyncOverrides \cap DOMAIN Last.HostnameMap :
                 (/\ t.SyncOverrides[k].server # Last.HostnameMap[k]
                  /\ t.SyncOverrides[k].description # "cur") =>
                     k \in t.ToUpdate /\ k \notin t.ToUpdateDesc

\* an owned override under a legacy description holds a stale address and
\* is queued for update
C5_Witness ==
    /\ runs # <<>> /\ Last.path \in UnboundPaths /\ Last.unbound.diffed
    /\ \E k \in Last.unbound.ToUpdate :
          /\ Last.unbound.SyncOverrides[k].description = "legacy"
          /\ Last.unbound.SyncOverrides[k].server # Last.HostnameMap[k]

\* the keys of the owned overrides that the source mapping does not name
StaleOwnedKeys(r) ==
    {Key(r.beforeOverrides[j]) : j \in {i \in DOMAIN r.beforeOverrides :
        /\ MarkerMatches(r.beforeOverrides[i])
        /\ Key(r.beforeOverrides[i]) \notin DOMAIN r.HostnameMap}}

\* C6, every mapping: for every source mapping, empty or not, a sync that returns
\* a result has queued for removal exactly the owned overrides whose key is
\* not a key of the mapping.
C6_RemoveForEveryMapping ==
    (runs # <<>> /\ Last.path \in {"sync", "cmd"} /\ Last.err = "none") =>
        Last.unbound.ToRemove = StaleOwnedKeys(Last)

\* C6, non-empty mapping: for a source mapping that is not empty the diff queues for
\* removal exactly the keys of the owned overrides that are not keys of the
\* mapping; for an empty mapping the sync returns before it lists the
\* target, and queues nothing.
C6_RemoveForNonEmptyMapping ==
    (runs # <<>> /\ Last.path \in UnboundPaths) =>
        /\ Last.unbound.diffed =>
              /\ DOMAIN Last.HostnameMap # {}
              /\ Last.unbound.ToRemove = StaleOwnedKeys(Last)
        /\ (Last.err = "none" /\ DOMAIN Last.HostnameMap = {}) =>
              ~Last.unbound.ran /\ ChangeSets(Last.unbound) = {}
        /\ (Last.err = "none" /\ DOMAIN Last.HostnameMap # {}
            /\ Last.path \in {"sync", "cmd"}) => Last.unbound.diffed

\* the source names a host, an owned override of another key is queued for
\* removal, and a foreign override that the source does not name is not
C6_Witness ==
    /\ runs # <<>> /\ Last.path \in UnboundPaths /\ Last.unbound.diffed
    /\ Last.unbound.ToRemove # {}
    /\ \E j \in DOMAIN Last.beforeOverrides :
          /\ ~MarkerMatches(Last.beforeOverrides[j])
          /\ Key(Last.beforeOverrides[j]) \notin DOMAIN Last.HostnameMap
          /\ Key(Last.beforeOverrides[j]) \notin Last.unbound.ToRemove

\* C7: in the standalone and in the unified AdGuard path a rewrite is owned
\* only when its answer is the proxy address and its domain is a key of the
\* source mapping, and every such rewrite with a fully qualified domain is
\* owned (a key without a dot is synced by neither path); a rewrite that
\* points to the proxy and whose domain the mapping does not name is foreign
\* and is never the target of an update or a delete.
C7_AdguardOwnershipBothPaths ==
    (runs # <<>> /\ Last.adguard.diffed) =>
        /\ \A r \in Last.beforeRewrites :
              LET named == /\ r.answer = CaddyServerIP
                           /\ r.domain \in DOMAIN Last.HostnameMap
              IN /\ r \in Last.adguard.SyncRewrites => named
                 /\ (named /\ containsDot(r.domain)) =>
                        r \in Last.adguard.SyncRewrites
        /\ \A i \in DOMAIN Last.adguard.calls :
              LET c == Last.adguard.calls[i]
              IN c.op \in {"update", "delete"} =>
                    ~(/\ c.target.answer = CaddyServerIP
                      /\ c.target.domain \notin DOMAIN Last.HostnameMap)

\* the mutation calls of a target that returned without error
Succeeded(t) == {i \in DOMAIN t.calls : t.calls[i].ok}

\* the target of the path: the resolver or the rewrite list
Applied(r) == IF r.path \in {"sync", "cmd"} THEN r.unbound ELSE r.adguard

\* C10: when at least one mutation call succeeded and the reconfigure call
\* that follows fails, the applier reports changesApplied = true.
C10_ReconfigureFailureKeepsFlag ==
    (runs # <<>> /\ Last.path \in ApplierPaths) =>
        ((Succeeded(Applied(Last)) # {}
          /\ Applied(Last).reconfigure = "failed")
            => Applied(Last).ChangesApplied)

\* C9: changesApplied is true exactly when at least one create, update or
\* delete call of the run succeeded.
C9_ChangesAppliedIffSucceeded ==
    (runs # <<>> /\ Last.path \in ApplierPaths /\ ~Last.dryRun
     /\ Applied(Last).diffed) =>
        (Applied(Last).ChangesApplied <=> Succeeded(Applied(Last)) # {})

\* the mutation of a call that succeeded is on the target after the run
Committed(c, r) ==
    IF r.path \in {"sync", "cmd"}
    THEN CASE c.op = "delete" ->
                  \A j \in DOMAIN overrides : overrides[j].uuid # c.target
           [] c.op = "update" ->
                  \E j \in DOMAIN overrides :
                      /\ overrides[j].uuid = c.target
                      /\ overrides[j].server = c.payload.server
           [] OTHER ->
                  \E j \in DOMAIN overrides :
                      /\ Key(overrides[j]) = c.key
                      /\ overrides[j].server = c.payload.server
                      /\ overrides[j].description = c.payload.description
    ELSE CASE c.op = "delete" -> c.target \notin rewrites
           [] OTHER -> c.payload \in rewrites

\* C8: when in one change set of a live apply the call for one entry fails
\* and the call for another succeeds, the mutation of the second is on the
\* target, every queued entry of every change set has had its call, and the
\* applier reports changesApplied = true.
C8_PartialFailureIsolation ==
    (runs # <<>> /\ Last.path \in ApplierPaths /\ ~Last.dryRun) =>
        LET t == Applied(Last)
        IN \A a, b \in DOMAIN t.calls :
              (/\ t.calls[a].set = t.calls[b].set
               /\ ~t.calls[a].ok /\ t.calls[b].ok) =>
                   /\ Committed(t.calls[b], Last)
                   /\ \A k \in ChangeSets(t) :
                         \E i \in DOMAIN t.calls : t.calls[i].key = k
                   /\ t.ChangesApplied

\* the diff of a target for the mapping and the entries the run started
\* from
DiffOf(r, t) ==
    IF r.path = "caddycf"
    THEN DiffCloudflare(r.HostnameMap, r.beforeOverrides, options)
    ELSE IF t = "unbound"
    THEN DiffOverrides(r.HostnameMap, r.beforeOverrides)
    ELSE IF r.path = "adguard"
    THEN ClassifyRewrites(r.HostnameMap, r.beforeRewrites)
    ELSE ClassifyRewritesInternal(r.HostnameMap, r.beforeRewrites)

\* the targets the command of the path syncs to
Enabled(p) ==
    CASE p \in {"sync", "cmd", "all-unbound", "caddycf"} -> {"unbound"}
      [] p \in {"adguard", "all-adguard"} -> {"adguard"}
      [] OTHER -> Targets

Completed(r, t) ==
    /\ r[t].ran /\ r[t].err = "none" /\ r[t].diffed
    /\ (t = "adguard" /\ ~r.dryRun) =>
          \A k \in ChangeSets(r[t]) :
              \E i \in DOMAIN r[t].calls : r[t].calls[i].key = k

\* the other target
Other(t) == IF t = "unbound" THEN "adguard" ELSE "unbound"

\* C12: when the reconciliation of one target of caddy-sync-all ends with
\* an error, the error is in the error slot of that target, and the
\* reconciliation of the other enabled target still runs: it is listed
\* and, unless its own list call fails, runs to its end.
C12_TargetErrorIsolation ==
    (runs # <<>> /\ Last.path = "all-both") =>
        \A t \in Targets :
            Last[t].err # "none" =>
                /\ Last[t].err = "list"
                /\ Last[Other(t)].ran
                /\ Last[Other(t)].err = "none" => Completed(Last, Other(t))
                /\ Last[Other(t)].err = "none" =>
                      Last.errorMsg = <<<<IF t = "unbound" THEN "UnboundDNS"
                                          ELSE "AdguardHome", "list">>>>

\* the list call of Unbound fails and a rewrite is added to AdguardHome
C12_Witness ==
    /\ runs # <<>> /\ Last.path = "all-both"
    /\ Last.unbound.err = "list"
    /\ Last.adguard.err = "none"
    /\ \E i \in DOMAIN Last.adguard.calls :
          /\ Last.adguard.calls[i].ok
          /\ Last.adguard.calls[i].payload \in rewrites

\* the paths of the caddy-sync-all command
UnifiedPaths == {"all-unbound", "all-adguard", "all-both"}

\* C13: caddy-sync-all exits with a non-zero status exactly when the source
\* fetch failed or every enabled target failed; it exits with zero when one
\* of two enabled targets failed and the other did not, and when only calls
\* for single entries failed.
C13_ExitStatus ==
    (runs # <<>> /\ Last.path \in UnifiedPaths) =>
        (ExitStatus(Last) # 0 <=>
            \/ Last.err = "fetch"
            \/ \A t \in Enabled(Last.path) : Last[t].err # "none")

\* the name the combined error gives a target
TargetName(t) == IF t = "unbound" THEN "UnboundDNS" ELSE "AdguardHome"

\* C14: when every enabled target of caddy-sync-all failed, the
\* orchestrator returns a result that is not nil, with the source mapping
\* in it, and an error that is not nil and names every failed target with
\* the error of that target.
C14_CombinedError ==
    (runs # <<>> /\ Last.path \in UnifiedPaths
     /\ \A t \in Enabled(Last.path) : Last[t].err # "none") =>
        /\ ~Last.nilResult
        /\ Last.HostnameMap = hostnameMap
        /\ Last.err # "none" /\ Last.errorMsg # <<>>
        /\ \A t \in Enabled(Last.path) :
              \E i \in DOMAIN Last.errorMsg :
                  Last.errorMsg[i] = <<TargetName(t), Last[t].err>>
        /\ \A i \in DOMAIN Last.errorMsg :
              \E t \in Enabled(Last.path) :
                  Last.errorMsg[i][1] = TargetName(t)

\* both targets are enabled and the list call of each fails
C14_Witness ==
    /\ runs # <<>> /\ Last.path = "all-both"
    /\ Last.unbound.err = "list" /\ Last.adguard.err = "list"
    /\ Len(Last.errorMsg) = Cardinality(Targets)

RECURSIVE PatternsOfRoutes(_)
PatternsOfRoutes(routes) ==
    UNION {UNION {Range(m.host) : m \in Range(r.match)}
           \cup UNION {PatternsOfRoutes(h.routes) : h \in Range(r.handle)} :
           r \in Range(routes)}

ConfigPatterns(config) ==
    UNION {PatternsOfRoutes(srv.routes) : srv \in Range(config.servers)}

\* C16: a host pattern that begins with "*." is never a key of the
\* extracted hostname mapping, wherever it stands in the route tree and with
\* or without a port; no key of the mapping a run works from begins with "*."
C16_WildcardNeverKey ==
    /\ \A hostStr \in ConfigPatterns(caddySource.config) :
          HasWildcardPrefix(hostStr) =>
             hostStr.labels \notin DOMAIN caddySource.fetched.result
    /\ \A i \in DOMAIN runs : \A k \in DOMAIN runs[i].HostnameMap :
          ~(Len(k) > 1 /\ Head(k) = "*")

\* a wildcard pattern with a port below a subroute handler, beside a plain
\* pattern that was extracted
C16_Witness ==
    /\ runs # <<>>
    /\ caddySource.fetched.err = "none"
    /\ <<"a", "x">> \in DOMAIN Last.HostnameMap
    /\ \E srv \in Range(caddySource.config.servers) :
          \E r \in Range(srv.routes) :
             /\ r.match = <<>>
             /\ \E h \in Range(r.handle) :
                   /\ h.handler = "subroute"
                   /\ \E hostStr \in PatternsOfRoutes(h.routes) :
                         HasWildcardPrefix(hostStr) /\ HasPort(hostStr)

\* C18: when the configuration lacks the apps, the http or the servers
\* section, extraction returns an error and no mapping, and the run that
\* asked for it returns the error without a list or a mutation call to
\* either target, which stay as they were
C18_MissingSectionAborts ==
    (runs # <<>> /\ MissingSection(caddySource.config) # "none") =>
        /\ ExtractHostnames(caddySource.config).err
              = MissingSection(caddySource.config)
        /\ caddySource.fetched.err
              \in {"connect", MissingSection(caddySource.config)}
        /\ caddySource.fetched.isNil
        /\ DOMAIN caddySource.fetched.result = {}
        /\ Last.err = "fetch" /\ Last.nilResult
        /\ ExitStatus(Last) = 1
        /\ \A t \in Targets : ~Last[t].ran /\ Last[t].calls = <<>>
        /\ overrides = Last.beforeOverrides
        /\ rewrites = Last.beforeRewrites

\* Caddy answered with a configuration whose apps section has no http
C18_Witness ==
    /\ runs # <<>>
    /\ caddySource.config.sections = {"apps"}
    /\ caddySource.fetched.err = "http"
    /\ Last.err = "fetch"

\* the names the change sets of a target hold: the keys of the sets of
\* hostnames, the host names of the entries and overrides of
\* caddy-sync-cloudflare
ChangeSetNames(r, t) ==
    IF r.path = "caddycf"
    THEN {e.Hostname : e \in r[t].ToAdd \cup r[t].ToUpdate}
         \cup {o.host : o \in r[t].ToRemove}
    ELSE r[t].ToAdd \cup r[t].ToUpdate \cup r[t].ToUpdateDesc
         \cup r[t].ToRemove

\* C17: a hostname of the source that contains no dot is in no change set
\* (add, update, update-marker, remove) of any sync path
C17_BareHostnameNeverSynced ==
    \A i \in DOMAIN runs : \A t \in Enabled(runs[i].path) :
        \A h \in DOMAIN runs[i].HostnameMap :
            ~containsDot(h) => h \notin ChangeSetNames(runs[i], t)

\* C19: caddy-sync-adguard removes a rewrite it created (its answer is the
\* Caddy server IP) once Caddy no longer has its domain: the domain is in
\* ToRemove and, in a live run whose calls succeed, the rewrite is deleted
C19_AdguardRemovesStale ==
    (runs # <<>> /\ Last.path = "adguard" /\ Last.adguard.diffed) =>
        \A r \in Last.beforeRewrites :
            (r.answer = CaddyServerIP /\ r.domain \notin DOMAIN Last.HostnameMap)
            => /\ r.domain \in Last.adguard.ToRemove
               /\ (/\ ~Last.dryRun
                   /\ \A j \in DOMAIN Last.adguard.calls :
                         Last.adguard.calls[j].ok)
                  => r \notin rewrites

\* C20: when an override with the host and domain already exists and the
\* calls succeed, add --force creates the override all the same, and add
\* without --force creates nothing
C20_ForceAddsDuplicate ==
    (/\ runs # <<>>
     /\ Last.in = [checkOk |-> TRUE, addOk |-> TRUE, applyOk |-> TRUE]
     /\ IsOverrideExists(Last.beforeOverrides, Last.override.host,
                         Last.override.domain))
    => IF Last.forceAdd
       THEN /\ Len(overrides) = Len(Last.beforeOverrides) + 1
            /\ \E i \in DOMAIN overrides :
                  /\ overrides[i].uuid
                        \notin {Last.beforeOverrides[j].uuid :
                                  j \in DOMAIN Last.beforeOverrides}
                  /\ overrides[i].host = Last.override.host
                  /\ overrides[i].domain = Last.override.domain
                  /\ overrides[i].server = Last.override.server
       ELSE overrides = Last.beforeOverrides

\* the paths whose applier for Unbound is in the source: the two
\* applyCloudflareChanges and the apply loops of SyncCaddyWithCloudflare
ResolverApplierPaths == {"sync", "cmd", "caddycf"}

\* C21: in a live apply to Unbound the reconfigure call is issued (once,
\* after the create, update and delete calls) exactly when at least one of
\* those calls succeeded
C21_ReconfigureAfterMutations ==
    \A i \in DOMAIN runs :
        (/\ runs[i].path \in ResolverApplierPaths
         /\ ~runs[i].dryRun /\ runs[i].unbound.diffed)
        => (runs[i].unbound.reconfigure # "none"
               <=> AnySucceeded(runs[i].unbound.calls))

\* C22: in a live run of SyncCaddyWithCloudflare every entry of ToUpdate
\* gets an UpdateOverride call that carries the identifier of the owned
\* override with the entry's key and the entry's address
C22_CloudflareUpdateIssued ==
    \A i \in DOMAIN runs :
        (/\ runs[i].path = "caddycf"
         /\ ~runs[i].dryRun /\ runs[i].unbound.diffed)
        => \A e \in runs[i].unbound.ToUpdate :
              \E j \in DOMAIN runs[i].unbound.calls :
                 LET c == runs[i].unbound.calls[j]
                 IN /\ c.op = "update"
                    /\ c.key = EntryKey(e)
                    /\ c.payload.server = e.IP
                    /\ \E k \in DOMAIN runs[i].beforeOverrides :
                          /\ runs[i].beforeOverrides[k].uuid = c.payload.uuid
                          /\ Key(runs[i].beforeOverrides[k]) = EntryKey(e)
                          /\ IsSyncCreated(runs[i].beforeOverrides[k])

\* the keys of the entries and overrides in the change sets of
\* SyncCaddyWithCloudflare
CloudflareChangeKeys(t) ==
    {EntryKey(e) : e \in t.ToAdd \cup t.ToUpdate}
    \cup {Key(o) : o \in t.ToRemove}

\* C23: SyncCaddyWithCloudflare queues a synthesized hostname for add only
\* if no listed override, owned or foreign, has its key, and a synthesized
\* hostname that only a foreign override has is in no change set
C23_CloudflareAddOnlyIfAbsent ==
    \A i \in DOMAIN runs :
        (runs[i].path = "caddycf" /\ runs[i].unbound.diffed) =>
            LET before == Range(runs[i].beforeOverrides)
                t == runs[i].unbound
            IN /\ \A e \in t.ToAdd :
                     \A o \in before : Key(o) # EntryKey(e)
               /\ \A o \in before :
                     (/\ ~IsSyncCreated(o)
                      /\ \A q \in before :
                            Key(q) = Key(o) => ~IsSyncCreated(q))
                     => Key(o) \notin CloudflareChangeKeys(t)

\* C24: SyncCaddyWithCloudflare reports ChangesApplied = true exactly when
\* at least one create, update or delete call of the live run succeeded; it
\* reports false when its change sets are all empty
C24_CloudflareChangesApplied ==
    \A i \in DOMAIN runs :
        (/\ runs[i].path = "caddycf"
         /\ ~runs[i].dryRun /\ runs[i].unbound.diffed)
        => /\ runs[i].unbound.ChangesApplied
                 <=> AnySucceeded(runs[i].unbound.calls)
           /\ ChangeSets(runs[i].unbound) = {}
                 => ~runs[i].unbound.ChangesApplied

\* the keys of the entries a target listed before the run that the path's
\* classifier takes for owned, and of those it takes for foreign
ListedKeys(r, t, owned) ==
    IF t = "unbound"
    THEN {Key(o) : o \in {q \in Range(r.beforeOverrides) :
                             IsSyncCreated(q) = owned}}
    ELSE {w.domain : w \in {q \in r.beforeRewrites :
                              (IF r.path = "adguard"
                               THEN IsSyncRewrite(q, r.HostnameMap)
                               ELSE IsSyncRewriteInternal(q, r.HostnameMap))
                              = owned}}

\* C25: a fully qualified hostname of the source mapping is in ToAdd exactly
\* when it is the key of neither an owned nor a foreign listed entry, and a
\* hostname that is the key of foreign entries only is in no change set
C25_AddIffAbsent ==
    \A i \in DOMAIN runs :
        runs[i].path # "caddycf" =>
            \A t \in Enabled(runs[i].path) :
                runs[i][t].diffed =>
                    \A h \in DOMAIN runs[i].HostnameMap :
                        containsDot(h) =>
                            /\ h \in runs[i][t].ToAdd
                                  <=> /\ h \notin ListedKeys(runs[i], t, TRUE)
                                      /\ h \notin ListedKeys(runs[i], t, FALSE)
                            /\ (/\ h \in ListedKeys(runs[i], t, FALSE)
                                /\ h \notin ListedKeys(runs[i], t, TRUE))
                               => h \notin ChangeSets(runs[i][t])

\* caddy-sync-all, live: the hostname is the key of a foreign override of
\* Unbound and left alone there, and is added to AdguardHome, which has no
\* rewrite for it
C25_Witness ==
    /\ runs # <<>>
    /\ Last.path = "all-both" /\ ~Last.dryRun
    /\ Last.unbound.diffed /\ Last.adguard.diffed
    /\ \E h \in DOMAIN Last.HostnameMap :
          /\ containsDot(h)
          /\ h \in ListedKeys(Last, "unbound", FALSE)
          /\ h \notin ChangeSets(Last.unbound)
          /\ h \in Last.adguard.ToAdd

\* the paths that print a closing message and whose applier is in the source
ReportedPaths == {"sync", "adguard", "all-adguard", "caddycf"}

\* C26: a live run whose change sets were not empty and whose mutation
\* calls all failed is not reported as already in sync; a run whose change
\* sets were all empty is
C26_AllFailedNotInSync ==
    \A i \in DOMAIN runs : \A t \in Enabled(runs[i].path) :
        (/\ runs[i].path \in ReportedPaths
         /\ ~runs[i].dryRun /\ runs[i][t].diffed)
        => /\ (/\ ChangeSets(runs[i][t]) # {}
               /\ runs[i][t].calls # <<>>
               /\ ~AnySucceeded(runs[i][t].calls))
              => Report(runs[i], t).message \notin InSyncMessages
           /\ ChangeSets(runs[i][t]) = {}
              => Report(runs[i], t).message \in InSyncMessages

\* C27: a live sync in which calls for entries fail returns a nil error
\* and a result, and when every create, update and delete call failed the
\* result has ChangesApplied = false
C27_EntryErrorsNotReturned ==
    \A i \in DOMAIN runs : \A t \in Enabled(runs[i].path) :
        (/\ runs[i].path \in ApplierPaths \cup {"caddycf"}
         /\ ~runs[i].dryRun /\ runs[i][t].diffed)
        => LET calls == runs[i][t].calls
           IN /\ (\E j \in DOMAIN calls : ~calls[j].ok)
                 => /\ runs[i].err = "none" /\ runs[i][t].err = "none"
                    /\ ~runs[i].nilResult
                    /\ ExitStatus(runs[i]) = 0
              /\ (calls # <<>> /\ \A j \in DOMAIN calls : ~calls[j].ok)
                 => ~runs[i][t].ChangesApplied

\* caddy-sync-adguard queued two adds and both calls failed
C27_Witness ==
    /\ runs # <<>>
    /\ Last.path = "adguard" /\ ~Last.dryRun
    /\ Cardinality(Last.adguard.ToAdd) > 1
    /\ Len(Last.adguard.calls) > 1
    /\ \A j \in DOMAIN Last.adguard.calls : ~Last.adguard.calls[j].ok
    /\ Last.err = "none"

\* C28: when the call that lists a target's entries fails, the sync of that
\* target returns an error and no result: no diff is computed, no create,
\* update, delete or reconfigure call goes to the target, and its entries
\* stay as they were
C28_ListFailureAborts ==
    \A i \in DOMAIN runs : \A t \in Enabled(runs[i].path) :
        runs[i][t].err = "list" =>
            /\ runs[i].err # "none"
            /\ runs[i].path \notin UnifiedPaths => runs[i].nilResult
            /\ ~runs[i][t].diffed
            /\ ChangeSets(runs[i][t]) = {}
            /\ runs[i][t].calls = <<>>
            /\ runs[i][t].reconfigure = "none"
            /\ ~runs[i][t].ChangesApplied
            /\ i = Len(runs) =>
                  IF t = "unbound" THEN overrides = runs[i].beforeOverrides
                  ELSE rewrites = runs[i].beforeRewrites

\* caddy-sync-all, live: the listing of Unbound failed while the source
\* names hostnames Unbound lacks, and AdguardHome was synced
C28_Witness ==
    /\ runs # <<>>
    /\ Last.path = "all-both" /\ ~Last.dryRun
    /\ Last.unbound.err = "list"
    /\ DiffOverrides(Last.HostnameMap, Last.beforeOverrides).ToAdd # {}
    /\ Last.adguard.calls # <<>>

\* the paths of cloudflare-sync, whose appliers are the two
\* applyCloudflareChanges
CloudflareSyncPaths == {"sync", "cmd"}

\* C29: after a live run of a resolver sync whose mutation calls all
\* succeeded, a second run finds its four change sets empty, and an owned
\* override that had a legacy description and a stale address has the
\* current description and the desired address; stated for listings whose
\* overrides have pairwise distinct keys
C29_SecondRunEmpty ==
    (/\ Len(runs) = 2
     /\ \A a, b \in DOMAIN runs[1].beforeOverrides :
           Key(runs[1].beforeOverrides[a]) = Key(runs[1].beforeOverrides[b])
           => a = b
     /\ path \in CloudflareSyncPaths
     /\ ~runs[1].dryRun /\ runs[1].unbound.diffed
     /\ \A j \in DOMAIN runs[1].unbound.calls : runs[1].unbound.calls[j].ok
     /\ runs[2].unbound.diffed)
    => /\ ChangeSets(runs[2].unbound) = {}
       /\ \A k \in DOMAIN runs[1].beforeOverrides :
             LET o == runs[1].beforeOverrides[k]
             IN (/\ o.description \in Range(LegacyDescriptions)
                 /\ Key(o) \in runs[1].unbound.ToUpdate)
                => \E m \in DOMAIN runs[2].beforeOverrides :
                      LET n == runs[2].beforeOverrides[m]
                      IN /\ n.uuid = o.uuid
                         /\ n.description = EntryDescription
                         /\ n.server = runs[1].HostnameMap[Key(o)]

\* C30: in SyncCaddyWithCloudflare, whatever the options, no synthesized
\* key has two entries in ToAdd and ToUpdate together, and an owned override
\* whose key is a synthesized hostname is in neither ToAdd nor ToRemove
C30_OneEntryPerSynthesizedKey ==
    \A i \in DOMAIN runs :
        (runs[i].path = "caddycf" /\ runs[i].unbound.diffed) =>
            LET t == runs[i].unbound
                synthesized == DOMAIN DirectEntries(runs[i].HostnameMap, options)
                               \cup DOMAIN CaddyEntries(runs[i].HostnameMap,
                                                        options)
            IN /\ \A e, f \in t.ToAdd \cup t.ToUpdate :
                     EntryKey(e) = EntryKey(f) => e = f
               /\ \A k \in DOMAIN runs[i].beforeOverrides :
                     LET o == runs[i].beforeOverrides[k]
                     IN (IsSyncCreated(o) /\ Key(o) \in synthesized)
                        => /\ \A e \in t.ToAdd : EntryKey(e) # Key(o)
                           /\ o \notin t.ToRemove
====
